---- MODULE Spec2Model ----
(***************************************************************************)
(* Answer evaluation of the Life Words question-based recall feature       *)
(* (backend/app/routers/life_words_questions.py).                          *)
(*                                                                         *)
(* Python strings are TLA+ strings, read as sequences of characters (Len,  *)
(* SubSeq and \o apply to them).  Optional values are tagged: None, a str  *)
(* and a dict are records with a "type" field, as Python tells them apart. *)
(* A float score n/d is the reduced fraction <<n, d>>.                     *)
(***************************************************************************)
EXTENDS Integers, Sequences, FiniteSets, TLC

(***************************************************************************)
(* Bounds of the model.                                                    *)
(***************************************************************************)
\* Longest user answer, in words, built from Vocabulary.
MaxWords == 2

\* Longest acceptable_answers list.
MaxAlternatives == 2

(***************************************************************************)
(* Python values.                                                          *)
(***************************************************************************)
None == [type |-> "NoneType"]

PyStr(s) == [type |-> "str", value |-> s]

PyDict(d) == [type |-> "dict", value |-> d]

\* Faulty variant of Truthy: `user_answer is None` in place of
\* `not user_answer`, so "" is not caught.
Truthy_unless_None(x) == x.type = "str"

\* bool(x) of an Optional[str]: None and "" are falsy.
Truthy(x) == x.type = "str" /\ x.value # ""

\* dict.get(key, default)
DictGet(d, key, default) == IF key \in DOMAIN d THEN d[key] ELSE default

(***************************************************************************)
(* str methods: lower, strip, split, the `in` operator.                    *)
(***************************************************************************)
UPPERCASE == "ABCDEFGHIJKLMNOPQRSTUVWXYZ"

LOWERCASE == "abcdefghijklmnopqrstuvwxyz"

\* The ASCII characters str.strip() and str.split() treat as whitespace.
WHITESPACE == {" ", "\t", "\n", "\r", "\f"}

Char(s, i) == SubSeq(s, i, i)

\* str.lower() of one character.
LowerTable ==
    [c \in {Char(UPPERCASE, i) : i \in 1..Len(UPPERCASE)} |->
        Char(LOWERCASE, CHOOSE i \in 1..Len(UPPERCASE) : Char(UPPERCASE, i) = c)]

LowerChar(c) == IF c \in DOMAIN LowerTable THEN LowerTable[c] ELSE c

RECURSIVE lower(_)
lower(s) ==
    IF s = "" THEN "" ELSE LowerChar(Char(s, 1)) \o lower(SubSeq(s, 2, Len(s)))

RECURSIVE lstrip(_)
lstrip(s) ==
    IF s # "" /\ Char(s, 1) \in WHITESPACE THEN lstrip(SubSeq(s, 2, Len(s))) ELSE s

RECURSIVE rstrip(_)
rstrip(s) ==
    IF s # "" /\ Char(s, Len(s)) \in WHITESPACE
    THEN rstrip(SubSeq(s, 1, Len(s) - 1))
    ELSE s

strip(s) == rstrip(lstrip(s))

\* Length of the leading run of non-whitespace characters of t.
WordLen(t) ==
    CHOOSE n \in 0..Len(t) :
        /\ \A j \in 1..n : Char(t, j) \notin WHITESPACE
        /\ n < Len(t) => Char(t, n + 1) \in WHITESPACE

\* str.split() with no argument: the list of maximal non-whitespace runs.
RECURSIVE split(_)
split(s) ==
    LET t == lstrip(s)
    IN  IF t = "" THEN <<>>
        ELSE <<SubSeq(t, 1, WordLen(t))>> \o split(SubSeq(t, WordLen(t) + 1, Len(t)))

\* `sub in s` for two strings.
Contains(sub, s) ==
    \/ sub = ""
    \/ \E i \in 1..(Len(s) - Len(sub) + 1) : SubSeq(s, i, i + Len(sub) - 1) = sub

\* set(list)
ToSet(seq) == {seq[i] : i \in DOMAIN seq}

(***************************************************************************)
(* Scores: the float n / d as a reduced fraction.                          *)
(***************************************************************************)
RECURSIVE GCD(_, _)
GCD(a, b) == IF b = 0 THEN a ELSE GCD(b, a % b)

Div(n, d) == <<n \div GCD(n, d), d \div GCD(n, d)>>

Geq(a, b) == a[1] * b[2] >= b[1] * a[2]

Max(a, b) == IF Geq(b, a) /\ ~Geq(a, b) THEN b ELSE a

IntMax(m, n) == IF n > m THEN n ELSE m

Float_0_0 == Div(0, 10)

Float_0_3 == Div(3, 10)

Float_0_5 == Div(5, 10)

Float_0_7 == Div(7, 10)

Float_0_8 == Div(8, 10)

Float_0_9 == Div(9, 10)

Float_1_0 == Div(10, 10)

(***************************************************************************)
(* Lexical resources.                                                      *)
(***************************************************************************)
STOP_WORDS ==
    {
      "a", "about", "all", "also", "always", "am", "an", "and", "any", "are",
      "as", "at", "be", "because", "been", "being", "but", "by", "came",
      "can", "come", "comes", "coming", "could", "did", "do", "does",
      "doing", "done", "down", "during", "each", "every", "for", "from",
      "get", "gets", "getting", "go", "goes", "going", "gone", "got", "had",
      "has", "have", "having", "he", "her", "here", "him", "his", "how", "i",
      "if", "in", "into", "is", "it", "its", "just", "knew", "know",
      "knowing", "known", "knows", "like", "liked", "likes", "liking",
      "made", "make", "makes", "making", "may", "me", "might", "must", "my",
      "never", "no", "nor", "not", "of", "often", "on", "onto", "or", "our",
      "out", "over", "really", "said", "saw", "say", "saying", "says", "see",
      "seeing", "seen", "sees", "shall", "she", "should", "so", "some",
      "sometimes", "take", "taken", "takes", "taking", "than", "that", "the",
      "their", "them", "then", "there", "these", "they", "think", "thinking",
      "thinks", "this", "those", "thought", "through", "to", "too", "took",
      "under", "up", "upon", "us", "usually", "very", "want", "wanted",
      "wanting", "wants", "was", "we", "went", "were", "what", "when",
      "where", "which", "while", "who", "whom", "why", "will", "with",
      "would", "yet", "you", "your"
    }

SYNONYM_GROUPS ==
    <<
      {"daughter", "girl", "child", "kid"},
      {"son", "boy", "child", "kid"},
      {"spouse", "husband", "wife", "partner"},
      {"grandchild", "grandkid", "grandson", "granddaughter"},
      {"parent", "mom", "dad", "mother", "father"},
      {"sibling", "brother", "sister"},
      {"friend", "buddy", "pal", "companion"},
      {"caregiver", "helper", "aide", "nurse"},
      {"outgoing", "social", "extroverted", "friendly", "sociable", "talkative"},
      {"reserved", "quiet", "shy", "introverted", "private"},
      {"optimistic", "positive", "cheerful", "upbeat", "hopeful"},
      {"cautious", "careful", "prudent", "wary"},
      {"friendly", "kind", "nice", "warm", "caring", "loving", "sweet"},
      {"energetic", "active", "lively", "spirited", "dynamic"},
      {"calm", "peaceful", "relaxed", "mellow", "easygoing", "laid back"},
      {"funny", "humorous", "witty", "hilarious", "comedic"},
      {"smart", "intelligent", "clever", "bright", "wise"},
      {"generous", "giving", "charitable", "kind"},
      {"patient", "understanding", "tolerant"},
      {"hardworking", "diligent", "dedicated", "industrious"},
      {"home", "house", "my place", "their place", "residence"},
      {"church", "temple", "synagogue", "mosque", "place of worship"},
      {"work", "office", "job", "workplace"},
      {"school", "class", "college", "university"},
      {"park", "playground", "outside", "outdoors"},
      {"store", "shop", "market", "mall"},
      {"restaurant", "diner", "cafe", "eatery"},
      {"hospital", "clinic", "doctor", "medical"}
    >>

\* extract_significant_words
extract_significant_words(text) == ToSet(split(lower(text))) \ STOP_WORDS

\* The loop of find_synonym_match from group i on; the first group that holds
\* both words ends it.
RECURSIVE SynonymLoop(_, _, _)
SynonymLoop(i, w1, w2) ==
    IF i > Len(SYNONYM_GROUPS) THEN FALSE
    ELSE IF w1 \in SYNONYM_GROUPS[i] /\ w2 \in SYNONYM_GROUPS[i] THEN TRUE
    ELSE SynonymLoop(i + 1, w1, w2)

\* Faulty variant of find_synonym_match: groups that share a word count as
\* one group, which makes synonymy transitive.
find_synonym_match_merged(word1, word2) ==
    \/ SynonymLoop(1, strip(lower(word1)), strip(lower(word2)))
    \/ \E i \in DOMAIN SYNONYM_GROUPS : \E w \in SYNONYM_GROUPS[i] :
           /\ SynonymLoop(1, strip(lower(word1)), w)
           /\ SynonymLoop(1, w, strip(lower(word2)))

\* find_synonym_match: both words lowercased and stripped, then the loop.
find_synonym_match(word1, word2) ==
    SynonymLoop(1, strip(lower(word1)), strip(lower(word2)))

IntMin(m, n) == IF n < m THEN n ELSE m

\* Faulty variant of words_are_similar: min(...) in place of max(...), the
\* match count divided by the smaller set's size.
words_are_similar_min(user_words, expected_words) ==
    IF user_words = {} \/ expected_words = {}
    THEN <<FALSE, Float_0_0>>
    ELSE LET matches == Cardinality({uw \in user_words :
                            \E ew \in expected_words :
                                uw = ew \/ find_synonym_match(uw, ew)})
             score == Div(matches,
                          IntMin(Cardinality(user_words), Cardinality(expected_words)))
         IN  <<Geq(score, Float_0_5), score>>

\* words_are_similar returns (bool, float); the inner `break` counts a user
\* word once, however many expected words it matches.
words_are_similar(user_words, expected_words) ==
    IF user_words = {} \/ expected_words = {}
    THEN <<FALSE, Float_0_0>>
    ELSE LET matches == Cardinality({uw \in user_words :
                            \E ew \in expected_words :
                                uw = ew \/ find_synonym_match(uw, ew)})
             score == Div(matches,
                          IntMax(Cardinality(user_words), Cardinality(expected_words)))
         IN  <<Geq(score, Float_0_5), score>>

(***************************************************************************)
(* evaluate_answer: a cascade of tiers.  A tier either returns the result  *)
(* of the call or falls through to the statement after it (Continue).      *)
(***************************************************************************)
Return(is_correct, is_partial, score) ==
    [kind |-> "return", is_correct |-> is_correct, is_partial |-> is_partial,
     correctness_score |-> score]

Raise(exception) == [kind |-> "raise", exception |-> exception]

Continue == [kind |-> "continue"]

OrElse(r, next) == IF r.kind = "continue" THEN next ELSE r

\* `if not user_answer: return False, False, 0.0`
empty_answer(user_answer) ==
    IF ~Truthy(user_answer) THEN Return(FALSE, FALSE, Float_0_0) ELSE Continue

\* Faulty variant of setting: `settings.get(key) or True`, a stored False
\* reads as True.
setting_or_true(settings, key) ==
    DictGet(IF settings.type = "NoneType" THEN <<>> ELSE settings.value, key, TRUE)
        \/ TRUE

\* settings.get(key, True), after `if settings is None: settings = {}`
setting(settings, key) ==
    DictGet(IF settings.type = "NoneType" THEN <<>> ELSE settings.value, key, TRUE)

\* Faulty variant of lower_strip: text.lower(), the .strip() forgotten.
lower_only(text) == lower(text)

\* text.lower().strip()
lower_strip(text) == strip(lower(text))

\* Exact match (always enabled, case-insensitive)
exact_match(user_lower, expected_lower) ==
    IF user_lower = expected_lower THEN Return(TRUE, FALSE, Float_1_0) ELSE Continue

\* Faulty variant of acceptable_alternatives: `user_lower == alt`, the
\* alternative is not lowercased.
acceptable_alternatives_cased(use_acceptable, user_lower, acceptable) ==
    IF /\ use_acceptable
       /\ \E i \in DOMAIN acceptable :
              acceptable[i] # "" /\ user_lower = acceptable[i]
    THEN Return(TRUE, FALSE, Float_1_0)
    ELSE Continue

\* Check acceptable alternatives
acceptable_alternatives(use_acceptable, user_lower, acceptable) ==
    IF /\ use_acceptable
       /\ \E i \in DOMAIN acceptable :
              acceptable[i] # "" /\ user_lower = lower(acceptable[i])
    THEN Return(TRUE, FALSE, Float_1_0)
    ELSE Continue

\* Faulty variant of first_name_only: takes a full name to be an expected
\* answer of more than one word, instead of one that contains a space.
first_name_only_words(use_first_name, user_lower, expected) ==
    IF use_first_name /\ Len(split(expected)) > 1
    THEN IF user_lower = lower(split(expected)[1])
         THEN Return(TRUE, TRUE, Float_0_9)
         ELSE Continue
    ELSE Continue

\* Faulty variant of first_name_only: the first name scores 0.7, below the
\* 0.8 of the substring tier that follows it.
first_name_only_low_score(use_first_name, user_lower, expected) ==
    IF use_first_name /\ Contains(" ", expected)
    THEN IF split(expected) = <<>> THEN Raise("IndexError")
         ELSE IF user_lower = lower(split(expected)[1])
              THEN Return(TRUE, TRUE, Float_0_7)
              ELSE Continue
    ELSE Continue

\* First name only matching; expected.split()[0] of a string without a word
\* is an IndexError.
first_name_only(use_first_name, user_lower, expected) ==
    IF use_first_name /\ Contains(" ", expected)
    THEN IF split(expected) = <<>> THEN Raise("IndexError")
         ELSE IF user_lower = lower(split(expected)[1])
              THEN Return(TRUE, TRUE, Float_0_9)
              ELSE Continue
    ELSE Continue

\* Faulty variant of partial_match: only `expected_lower in user_lower`,
\* without the "vice versa".
partial_match_one_way(use_partial, user_lower, expected_lower) ==
    IF use_partial /\ Contains(expected_lower, user_lower)
    THEN Return(TRUE, TRUE, Float_0_8)
    ELSE Continue

\* Faulty variant of partial_match: the substring tier returns the full
\* score instead of 0.8.
partial_match_full_score(use_partial, user_lower, expected_lower) ==
    IF /\ use_partial
       /\ Contains(expected_lower, user_lower) \/ Contains(user_lower, expected_lower)
    THEN Return(TRUE, TRUE, Float_1_0)
    ELSE Continue

\* Partial match - user answer contains expected or vice versa
partial_match(use_partial, user_lower, expected_lower) ==
    IF /\ use_partial
       /\ Contains(expected_lower, user_lower) \/ Contains(user_lower, expected_lower)
    THEN Return(TRUE, TRUE, Float_0_8)
    ELSE Continue

\* Faulty variant of word_overlap: `return score >= 0.5, True, score` for
\* any common word.
word_overlap_graded(use_word_overlap, user_words, expected_words) ==
    LET common == user_words \cap expected_words
        score == Div(Cardinality(common),
                     IntMax(Cardinality(user_words), Cardinality(expected_words)))
    IN  IF use_word_overlap /\ common # {}
        THEN Return(Geq(score, Float_0_5), TRUE, score)
        ELSE Continue

\* Check word overlap
word_overlap(use_word_overlap, user_words, expected_words) ==
    LET common == user_words \cap expected_words
        score == Div(Cardinality(common),
                     IntMax(Cardinality(user_words), Cardinality(expected_words)))
    IN  IF use_word_overlap /\ common # {} /\ Geq(score, Float_0_5)
        THEN Return(TRUE, TRUE, score)
        ELSE Continue

\* Faulty variant of significant_word_overlap: the 0.3 threshold alone
\* decides, without `or len(significant_common) >= 1`.
significant_word_overlap_threshold(use_stop_words, user_lower, expected_lower) ==
    LET user_significant == extract_significant_words(user_lower)
        expected_significant == extract_significant_words(expected_lower)
        significant_common == user_significant \cap expected_significant
        score == Div(Cardinality(significant_common),
                     IntMax(Cardinality(user_significant),
                            Cardinality(expected_significant)))
    IN  IF /\ use_stop_words
           /\ user_significant # {} /\ expected_significant # {}
           /\ significant_common # {}
           /\ Geq(score, Float_0_3)
        THEN Return(TRUE, TRUE, Max(Float_0_7, score))
        ELSE Continue

\* Stop word filtering and significant word matching
significant_word_overlap(use_stop_words, user_lower, expected_lower) ==
    LET user_significant == extract_significant_words(user_lower)
        expected_significant == extract_significant_words(expected_lower)
        significant_common == user_significant \cap expected_significant
        score == Div(Cardinality(significant_common),
                     IntMax(Cardinality(user_significant),
                            Cardinality(expected_significant)))
    IN  IF /\ use_stop_words
           /\ user_significant # {} /\ expected_significant # {}
           /\ significant_common # {}
           /\ Geq(score, Float_0_3) \/ Cardinality(significant_common) >= 1
        THEN Return(TRUE, TRUE, Max(Float_0_7, score))
        ELSE Continue

\* Synonym matching: the raw word sets, then the significant words, then any
\* single synonymous pair.
synonym_matching(use_synonyms, use_stop_words, user_lower, expected_lower, user_words, expected_words) ==
    LET similar == words_are_similar(user_words, expected_words)
        user_significant == extract_significant_words(user_lower)
        expected_significant == extract_significant_words(expected_lower)
        similar_sig == words_are_similar(user_significant, expected_significant)
    IN  IF ~use_synonyms THEN Continue
        ELSE IF similar[1] THEN Return(TRUE, TRUE, similar[2])
        ELSE IF /\ use_stop_words
                /\ user_significant # {} /\ expected_significant # {}
                /\ similar_sig[1]
             THEN Return(TRUE, TRUE, similar_sig[2])
        ELSE IF \E uw \in user_words : \E ew \in expected_words :
                    find_synonym_match(uw, ew)
             THEN Return(TRUE, TRUE, Float_0_7)
        ELSE Continue

evaluate_answer(user_answer, expected, acceptable, settings) ==
    LET use_acceptable == setting(settings, "match_acceptable_alternatives")
        use_partial == setting(settings, "match_partial_substring")
        use_word_overlap == setting(settings, "match_word_overlap")
        use_stop_words == setting(settings, "match_stop_word_filtering")
        use_synonyms == setting(settings, "match_synonyms")
        use_first_name == setting(settings, "match_first_name_only")
        user_lower == lower_strip(user_answer.value)
        expected_lower == lower_strip(expected)
        user_words == ToSet(split(user_lower))
        expected_words == ToSet(split(expected_lower))
    IN  OrElse(empty_answer(user_answer),
        OrElse(exact_match(user_lower, expected_lower),
        OrElse(acceptable_alternatives(use_acceptable, user_lower, acceptable),
        OrElse(first_name_only(use_first_name, user_lower, expected),
        OrElse(partial_match(use_partial, user_lower, expected_lower),
        OrElse(word_overlap(use_word_overlap, user_words, expected_words),
        OrElse(significant_word_overlap(use_stop_words, user_lower, expected_lower),
        OrElse(synonym_matching(use_synonyms, use_stop_words, user_lower,
                                expected_lower, user_words, expected_words),
               Return(FALSE, FALSE, Float_0_0)))))))))

(***************************************************************************)
(* The calls the model makes: one call of evaluate_answer per behaviour,   *)
(* its arguments drawn from the sets below.                                *)
(***************************************************************************)
FLAGS ==
    {"match_acceptable_alternatives", "match_partial_substring",
     "match_word_overlap", "match_stop_word_filtering", "match_synonyms",
     "match_first_name_only"}

\* settings: None, the empty dict, a dict that sets one flag to False and
\* every dict that sets all six flags.
SettingsBundles ==
    {None, PyDict(<<>>)}
        \cup {PyDict([k \in {f} |-> FALSE]) : f \in FLAGS}
        \cup {PyDict(d) : d \in [FLAGS -> BOOLEAN]}

\* Words the generated user answers are built from: two words of one
\* synonym group, both synonyms of "child".
Vocabulary == {"son", "kid"}

\* The answers of n Vocabulary words, joined by single spaces.
RECURSIVE Phrases(_)
Phrases(n) ==
    IF n = 1 THEN Vocabulary
    ELSE {p \o " " \o w : p \in Phrases(n - 1), w \in Vocabulary}

\* user_answer: None, the empty and the blank string, answers that differ
\* from an expected answer in case or outer whitespace, answers with stop
\* words, synonyms, substrings and first names of the expected answers, and
\* every phrase of up to MaxWords Vocabulary words.
UserAnswers ==
    {None}
        \cup {PyStr(s) : s \in {"", " ", "Son ", "\tSON", "my son", "my son john",
                                "daughter", "friendly", "nice", "work", "john",
                                "smith john", "caring person", "the kid",
                                "john smith work son"}}
        \cup {PyStr(s) : s \in UNION {Phrases(n) : n \in 1..MaxWords}}

\* expected: single words, a full name, a name split by a tab, answers with
\* stop words, a whitespace-only and the empty string.  The endpoint passes
\* any str on.
ExpectedAnswers ==
    {"son", "nice", "child", "John Smith", "john\tsmith", "workplace",
     "kind and caring", "the son", " ", ""}

\* Entries of acceptable_answers: one that differs from "my son" in case and
\* the empty entry the generator can emit.
Alternatives == {"My Son", ""}

AcceptableLists == UNION {[1..n -> Alternatives] : n \in 0..MaxAlternatives}

(***************************************************************************)
(* str methods of the prompt generator: title, startswith, endswith.      *)
(***************************************************************************)
\* str.upper() of one character.
UpperTable ==
    [c \in {Char(LOWERCASE, i) : i \in 1..Len(LOWERCASE)} |->
        Char(UPPERCASE, CHOOSE i \in 1..Len(LOWERCASE) : Char(LOWERCASE, i) = c)]

UpperChar(c) == IF c \in DOMAIN UpperTable THEN UpperTable[c] ELSE c

IsCased(c) == c \in DOMAIN UpperTable \/ c \in DOMAIN LowerTable

\* str.title(): a letter is uppercased after a character that is no letter
\* (and at the start), lowercased after a letter.
RECURSIVE TitleFrom(_, _)
TitleFrom(s, after_letter) ==
    IF s = "" THEN ""
    ELSE (IF after_letter THEN LowerChar(Char(s, 1)) ELSE UpperChar(Char(s, 1)))
             \o TitleFrom(SubSeq(s, 2, Len(s)), IsCased(Char(s, 1)))

title(s) == TitleFrom(s, FALSE)

StartsWith(s, prefix) ==
    Len(s) >= Len(prefix) /\ SubSeq(s, 1, Len(prefix)) = prefix

EndsWith(s, suffix) ==
    Len(s) >= Len(suffix) /\ SubSeq(s, Len(s) - Len(suffix) + 1, Len(s)) = suffix

\* `a or b` of two Optional[str] values.
Or(a, b) == IF Truthy(a) THEN a ELSE b

\* A list value, and bool(x) of an Optional[list].
PyList(l) == [type |-> "list", value |-> l]

TruthyList(x) == x.type = "list" /\ x.value # <<>>

(***************************************************************************)
(* The prompt generator.                                                   *)
(***************************************************************************)
MIN_CONTACTS_REQUIRED == 2

\* Mapping of stored relationship values to acceptable spoken alternatives
RELATIONSHIP_ALTERNATIVES ==
    [child |-> <<"child", "son", "daughter", "kid", "my child", "my son", "my daughter">>,
     spouse |-> <<"spouse", "husband", "wife", "partner", "my spouse", "my husband", "my wife">>,
     grandchild |-> <<"grandchild", "grandson", "granddaughter", "grandkid", "my grandchild", "my grandson", "my granddaughter">>,
     parent |-> <<"parent", "mother", "father", "mom", "dad", "my parent", "my mother", "my father", "my mom", "my dad">>,
     sibling |-> <<"sibling", "brother", "sister", "my sibling", "my brother", "my sister">>,
     friend |-> <<"friend", "my friend", "buddy", "pal">>,
     pet |-> <<"pet", "my pet", "dog", "cat", "animal">>,
     caregiver |-> <<"caregiver", "my caregiver", "helper", "aide", "nurse">>,
     neighbor |-> <<"neighbor", "my neighbor">>,
     other |-> <<"other">>]

get_relationship_alternatives(relationship) ==
    LET rel_lower == lower(relationship)
    IN  IF rel_lower \in DOMAIN RELATIONSHIP_ALTERNATIVES
        THEN RELATIONSHIP_ALTERNATIVES[rel_lower]
        ELSE <<lower(relationship), title(relationship), relationship>>

\* QuestionType
RELATIONSHIP == 1

ASSOCIATION == 2

INTERESTS == 3

PERSONALITY == 4

NAME_FROM_DESC == 5

GeneratedQuestion(contact, question_type, question_text, expected_answer, acceptable_answers) ==
    [contact_id |-> contact.id,
     contact_name |-> contact.name,
     contact_photo_url |-> contact.photo_url,
     question_type |-> question_type,
     question_text |-> question_text,
     expected_answer |-> expected_answer,
     acceptable_answers |-> acceptable_answers]

\* The list the generator returns.
ReturnList(questions) == [kind |-> "return", questions |-> questions]

\* Question 1: Relationship recall
relationship_question(c1) ==
    GeneratedQuestion(c1, RELATIONSHIP,
        "What is " \o c1.name \o "'s relationship to you?",
        c1.relationship,
        get_relationship_alternatives(c1.relationship))

\* Question 2: Association/Context recall
association_question(c2) ==
    LET location == Or(Or(c2.location_context, c2.association), PyStr("at home"))
    IN  GeneratedQuestion(c2, ASSOCIATION,
            "Where do you usually see " \o c2.name \o "?",
            location.value,
            IF Truthy(location) THEN <<lower(location.value)>> ELSE <<>>)

\* Question 3: Interests recall
interests_question(c3) ==
    LET interests == Or(c3.interests, PyStr("spending time together"))
    IN  GeneratedQuestion(c3, INTERESTS,
            "What does " \o c3.name \o " enjoy doing?",
            interests.value,
            IF Truthy(interests) THEN <<lower(interests.value)>> ELSE <<>>)

\* Question 4: Personality recall
personality_question(c4) ==
    LET personality == Or(Or(c4.personality, c4.description), PyStr("kind and caring"))
    IN  GeneratedQuestion(c4, PERSONALITY,
            "How would you describe " \o c4.name \o "'s personality?",
            personality.value,
            IF Truthy(personality) THEN <<lower(personality.value)>> ELSE <<>>)

possible_hint(contact) ==
    Or(Or(contact.interests, contact.description), contact.personality)

\* Faulty variant of FindHint: the loop has no `break`, so the last contact
\* with a hint is kept.
RECURSIVE FindHint_last(_, _)
FindHint_last(shuffled, i) ==
    IF i > Len(shuffled) THEN 0
    ELSE IF FindHint_last(shuffled, i + 1) # 0 THEN FindHint_last(shuffled, i + 1)
    ELSE IF Truthy(possible_hint(shuffled[i])) THEN i
    ELSE 0

\* The loop over shuffled: the index of the first contact with a hint, 0 when
\* the loop ends without one (c5 is None).
RECURSIVE FindHint(_, _)
FindHint(shuffled, i) ==
    IF i > Len(shuffled) THEN 0
    ELSE IF Truthy(possible_hint(shuffled[i])) THEN i
    ELSE FindHint(shuffled, i + 1)

\* Format the hint to work grammatically
format_hint(hint) ==
    LET hint_lower == strip(lower(hint))
        first_word == IF hint_lower # "" THEN split(hint_lower)[1] ELSE ""
        uncapitalized == LowerChar(Char(hint, 1)) \o SubSeq(hint, 2, Len(hint))
    IN  IF \/ StartsWith(hint_lower, "loves") \/ StartsWith(hint_lower, "enjoys")
           \/ StartsWith(hint_lower, "likes") \/ StartsWith(hint_lower, "is ")
        THEN uncapitalized
        ELSE IF EndsWith(first_word, "ing")
        THEN "loves " \o uncapitalized
        ELSE "loves " \o hint

\* Question 5: Name from description; name.split()[0] of a name that
\* contains a space and no word is an IndexError.
name_from_desc_question(shuffled) ==
    LET c5 == shuffled[FindHint(shuffled, 1)]
        hint == possible_hint(c5).value
    IN  IF FindHint(shuffled, 1) = 0 THEN ReturnList(<<>>)
        ELSE IF Contains(" ", c5.name) /\ split(c5.name) = <<>>
        THEN Raise("IndexError")
        ELSE ReturnList(<<GeneratedQuestion(c5, NAME_FROM_DESC,
                 "Who is your " \o c5.relationship \o " who " \o format_hint(hint) \o "?",
                 c5.name,
                 <<lower(c5.name),
                   IF Contains(" ", c5.name) THEN lower(split(c5.name)[1])
                                             ELSE lower(c5.name),
                   IF Truthy(c5.nickname) THEN lower(c5.nickname.value) ELSE "">>)>>)

\* shuffled = contacts.copy(); random.shuffle(shuffled): the copy in the
\* order the shuffle leaves it in, a permutation of the list's positions.
Shuffled(contacts, shuffle) == [i \in 1..Len(contacts) |-> contacts[shuffle[i]]]

\* Faulty variant of generate_questions_for_contacts: c2 and c4 fall back to
\* shuffled[0], so all four prompts are about the first contact.
generate_questions_first_contact_only(contacts, shuffle) ==
    LET shuffled == Shuffled(contacts, shuffle)
        first_four == <<relationship_question(shuffled[1]),
                        association_question(shuffled[1]),
                        interests_question(shuffled[1]),
                        personality_question(shuffled[1])>>
        fifth == name_from_desc_question(shuffled)
    IN  IF Len(contacts) < 2 THEN ReturnList(<<>>)
        ELSE IF fifth.kind = "raise" THEN fifth
        ELSE ReturnList(first_four \o fifth.questions)

\* generate_questions_for_contacts; shuffle is the order random.shuffle
\* leaves the copy in, a permutation of the list's positions.
generate_questions_for_contacts(contacts, shuffle) ==
    LET shuffled == Shuffled(contacts, shuffle)
        first_four == <<relationship_question(shuffled[1]),
                        association_question(shuffled[2]),
                        interests_question(shuffled[1]),
                        personality_question(shuffled[2])>>
        fifth == name_from_desc_question(shuffled)
    IN  IF Len(contacts) < 2 THEN ReturnList(<<>>)
        ELSE IF fifth.kind = "raise" THEN fifth
        ELSE ReturnList(first_four \o fifth.questions)

(***************************************************************************)
(* Inputs of the prompt generator: the rows of personal_contacts.  name,   *)
(* relationship and photo_url are str; the optional columns hold None or a *)
(* non-empty str.                                                          *)
(***************************************************************************)
MaxContacts == 3

\* The user the request is authenticated as.
CurrentUserId == "user-1"

PersonalContact(user_id, is_active, name, nickname, relationship, texts) ==
    [user_id |-> user_id, is_active |-> is_active, name |-> name,
     nickname |-> nickname, relationship |-> relationship,
     photo_url |-> "photo.jpg",
     interests |-> texts[1], description |-> texts[2], personality |-> texts[3],
     location_context |-> texts[4], association |-> texts[5]]

\* Rows without their id: a contact with interests only; one with a full
\* name, a nickname, a relationship outside the table and every optional
\* column but interests; one with an association only; one whose name is a
\* single space; an inactive one; one of another user; one whose relationship
\* is the empty string and whose two names are separated by a tab.
StoredContacts ==
    {PersonalContact(CurrentUserId, TRUE, "Ann", None, "child",
         <<PyStr("Gardening"), None, None, None, None>>),
     PersonalContact(CurrentUserId, TRUE, "Bob Stone", PyStr("Bobby"), "old Boss",
         <<None, PyStr("tall"), PyStr("Is kind"), PyStr("Church"), PyStr("work")>>),
     PersonalContact(CurrentUserId, TRUE, "Cy", None, "Friend",
         <<None, None, None, None, PyStr("The park")>>),
     PersonalContact(CurrentUserId, TRUE, " ", None, "spouse",
         <<PyStr("baseball"), None, None, None, None>>),
     PersonalContact(CurrentUserId, FALSE, "Dee", None, "pet",
         <<None, None, PyStr("loves walks"), None, None>>),
     PersonalContact("user-2", TRUE, "Zed", None, "neighbor",
         <<None, None, None, None, None>>),
     PersonalContact(CurrentUserId, TRUE, "Eve\tMoss", None, "",
         <<None, None, PyStr("likes tea"), None, None>>)}

\* The table's rows in query order; the i-th row has the id i.
ContactTables ==
    UNION {{[i \in 1..n |-> rows[i] @@ [id |-> i]] : rows \in [1..n -> StoredContacts]} :
              n \in 0..MaxContacts}

\* contact_ids of the request: absent, or the ids of the first k rows.
ContactIdLists(n) == {None} \cup {PyList([i \in 1..k |-> i]) : k \in 0..n}

VARIABLES user_answer, expected, acceptable, settings, result, pc, profile, contacts, contact_ids, sessions, questions, response, shuffled, tables, contact_invites, personal_contacts, submits

vars == <<user_answer, expected, acceptable, settings, result, pc, profile, contacts, contact_ids, sessions, questions, response, shuffled, tables, contact_invites, personal_contacts, submits>>

evaluator_vars == <<user_answer, expected, acceptable, settings, result, profile>>

session_vars == <<contacts, contact_ids, sessions, questions, response, shuffled, tables>>

invite_vars == <<contact_invites, personal_contacts, submits>>

\* The matching flags of a stored profile; each is True unless changed.
DefaultProfile == [f \in FLAGS |-> TRUE]

\* Stored profiles: the default one, one flag switched off, all switched off.
Profiles ==
    {DefaultProfile, [f \in FLAGS |-> FALSE]}
        \cup {[f \in FLAGS |-> f # g] : g \in FLAGS}

\* The module-level tables as the import of the module leaves them.
ModuleTables ==
    [STOP_WORDS |-> STOP_WORDS,
     SYNONYM_GROUPS |-> SYNONYM_GROUPS,
     RELATIONSHIP_ALTERNATIVES |-> RELATIONSHIP_ALTERNATIVES]

\* No invite sent, no contact submitted through one.
NoInvite ==
    /\ contact_invites = <<>>
    /\ personal_contacts = <<>>
    /\ submits = <<>>

\* No contact stored, no session created, no request made.
NoSession ==
    /\ contacts = <<>>
    /\ contact_ids = None
    /\ sessions = <<>>
    /\ questions = [kind |-> "pending"]
    /\ response = [kind |-> "pending"]
    /\ shuffled = <<>>
    /\ tables = ModuleTables
    /\ NoInvite

Init ==
    /\ user_answer \in UserAnswers
    /\ expected \in ExpectedAnswers
    /\ acceptable \in AcceptableLists
    /\ settings \in SettingsBundles
    /\ result = [kind |-> "pending"]
    /\ pc = "call"
    /\ profile = DefaultProfile
    /\ NoSession

Evaluate ==
    /\ pc = "call"
    /\ result' = evaluate_answer(user_answer, expected, acceptable, settings)
    /\ pc' = "done"
    /\ UNCHANGED <<user_answer, expected, acceptable, settings, profile>>
    /\ UNCHANGED session_vars
    /\ UNCHANGED invite_vars

Next == Evaluate

Spec == Init /\ [][Next]_vars

(***************************************************************************)
(* POST /evaluate-answer.  The request of a user with a stored profile     *)
(* carries two strings and a list of strings; the endpoint calls           *)
(* evaluate_answer with these three arguments, so the fourth, settings,    *)
(* takes its default None.  An exception of the call leaves the endpoint.  *)
(***************************************************************************)
InitEndpoint ==
    /\ user_answer \in UserAnswers \ {None}
    /\ expected \in ExpectedAnswers
    /\ acceptable \in AcceptableLists
    /\ profile \in Profiles
    /\ settings = None
    /\ result = [kind |-> "pending"]
    /\ pc = "call"
    /\ NoSession

evaluate_answer_endpoint ==
    /\ pc = "call"
    /\ settings' = None
    /\ result' = evaluate_answer(user_answer, expected, acceptable, settings')
    /\ pc' = "done"
    /\ UNCHANGED <<user_answer, expected, acceptable, profile>>
    /\ UNCHANGED session_vars
    /\ UNCHANGED invite_vars

NextEndpoint == evaluate_answer_endpoint

SpecEndpoint == InitEndpoint /\ [][NextEndpoint]_vars

(***************************************************************************)
(* Question sessions.  A behaviour makes one call: of the generator on the *)
(* stored rows, or of POST /question-sessions.                             *)
(***************************************************************************)
InitSession ==
    /\ contacts \in ContactTables
    /\ contact_ids \in ContactIdLists(Len(contacts))
    /\ sessions = <<>>
    /\ questions = [kind |-> "pending"]
    /\ response = [kind |-> "pending"]
    /\ shuffled = <<>>
    /\ tables = ModuleTables
    /\ NoInvite
    /\ pc = "call"
    /\ user_answer = None /\ expected = "" /\ acceptable = <<>>
    /\ settings = None /\ result = [kind |-> "pending"]
    /\ profile = DefaultProfile

\* questions = generate_questions_for_contacts(contacts), under any outcome
\* of random.shuffle.
GenerateQuestions ==
    /\ pc = "call"
    /\ \E shuffle \in Permutations(DOMAIN contacts) :
           /\ questions' = generate_questions_for_contacts(contacts, shuffle)
           /\ shuffled' = IF Len(contacts) < 2 THEN <<>>
                          ELSE Shuffled(contacts, shuffle)
    /\ pc' = "done"
    /\ UNCHANGED <<contacts, contact_ids, sessions, response, tables>>
    /\ UNCHANGED evaluator_vars
    /\ UNCHANGED invite_vars

HTTPException(status_code, detail) ==
    [kind |-> "HTTPException", status_code |-> status_code, detail |-> detail]

\* The row db.insert stores in life_words_question_sessions.
QuestionSession(selected) ==
    [user_id |-> CurrentUserId,
     contact_ids |-> [i \in DOMAIN selected |-> selected[i].id],
     is_completed |-> FALSE,
     total_questions |-> 5,
     total_correct |-> 0,
     average_response_time |-> 0,
     average_clarity_score |-> 0]

\* Faulty variant of SelectedContacts: the request's contact_ids are ignored.
SelectedContacts_all_active ==
    SelectSeq(contacts, LAMBDA c : c.user_id = CurrentUserId /\ c.is_active)

\* The active rows of the user, restricted to contact_ids when the request
\* names any.
SelectedContacts ==
    LET active == SelectSeq(contacts,
                      LAMBDA c : c.user_id = CurrentUserId /\ c.is_active)
    IN  IF TruthyList(contact_ids)
        THEN SelectSeq(active, LAMBDA c : c.id \in ToSet(contact_ids.value))
        ELSE active

\* POST /question-sessions: 400 before anything is stored when fewer than
\* MIN_CONTACTS_REQUIRED contacts are selected; otherwise the session row is
\* inserted, then the questions are generated; an exception of the generator
\* becomes a 500 after the insert.
create_question_session ==
    /\ pc = "call"
    /\ IF SelectedContacts = <<>> \/ Len(SelectedContacts) < MIN_CONTACTS_REQUIRED
       THEN /\ response' = HTTPException(400, "At least 2 contacts required")
            /\ sessions' = sessions
            /\ shuffled' = <<>>
       ELSE \E shuffle \in Permutations(DOMAIN SelectedContacts) :
                LET generated == generate_questions_for_contacts(SelectedContacts, shuffle)
                IN  /\ sessions' = Append(sessions, QuestionSession(SelectedContacts))
                    /\ shuffled' = Shuffled(SelectedContacts, shuffle)
                    /\ response' =
                           IF generated.kind = "raise"
                           THEN HTTPException(500, generated.exception)
                           ELSE [kind |-> "response",
                                 session |-> QuestionSession(SelectedContacts),
                                 questions |-> generated.questions,
                                 contacts |-> SelectedContacts]
    /\ pc' = "done"
    /\ UNCHANGED <<contacts, contact_ids, questions, tables>>
    /\ UNCHANGED evaluator_vars
    /\ UNCHANGED invite_vars

NextSession == GenerateQuestions \/ create_question_session

SpecSession == InitSession /\ [][NextSession]_vars

(***************************************************************************)
(* Repeated calls.  A caller holds an alternatives list, a settings value  *)
(* and a candidate list and calls evaluate_answer and                      *)
(* generate_questions_for_contacts with them any number of times, in any   *)
(* order; each call runs to its end before the next one starts.  After a   *)
(* call the caller's objects and the module-level tables are what the      *)
(* call's statements leave in them.                                        *)
(***************************************************************************)
CallAnswers == {PyStr("my son"), None}

CallExpected == {"son"}

CallAlternatives == {<<>>, <<"child", "kid">>}

CallSettings == {None, PyDict([f \in FLAGS |-> FALSE])}

\* Candidate lists of two kinds of rows.
CallTables ==
    {t \in ContactTables : \A i \in DOMAIN t : t[i].name \in {"Ann", "Bob Stone"}}

InitCalls ==
    /\ user_answer \in CallAnswers
    /\ expected \in CallExpected
    /\ acceptable \in CallAlternatives
    /\ settings \in CallSettings
    /\ contacts \in CallTables
    /\ result = [kind |-> "pending"]
    /\ questions = [kind |-> "pending"]
    /\ shuffled = <<>>
    /\ tables = ModuleTables
    /\ NoInvite
    /\ pc = "calls"
    /\ profile = DefaultProfile
    /\ contact_ids = None /\ sessions = <<>> /\ response = [kind |-> "pending"]

\* evaluate_answer binds `settings = {}` to its own local name and only
\* reads acceptable, settings and the tables.
CallEvaluateAnswer ==
    /\ pc = "calls"
    /\ \E u \in CallAnswers, e \in CallExpected :
           /\ user_answer' = u
           /\ expected' = e
           /\ result' = evaluate_answer(u, e, acceptable, settings)
    /\ UNCHANGED <<acceptable, settings, tables, pc, profile>>
    /\ UNCHANGED <<contacts, contact_ids, sessions, questions, response, shuffled>>
    /\ UNCHANGED invite_vars

\* Faulty variant of CallersList: random.shuffle(contacts) on the list itself.
CallersList_shuffled_in_place(list, shuffle) == Shuffled(list, shuffle)

\* The caller's list after generate_questions_for_contacts: the shuffle works
\* on contacts.copy(), and nothing else writes to the list.
CallersList(list, shuffle) == list

CallGenerateQuestions ==
    /\ pc = "calls"
    /\ \E shuffle \in Permutations(DOMAIN contacts) :
           /\ questions' = generate_questions_for_contacts(contacts, shuffle)
           /\ shuffled' = IF Len(contacts) < 2 THEN <<>>
                          ELSE Shuffled(contacts, shuffle)
           /\ contacts' = CallersList(contacts, shuffle)
    /\ UNCHANGED <<tables, pc, contact_ids, sessions, response>>
    /\ UNCHANGED evaluator_vars
    /\ UNCHANGED invite_vars

NextCalls == CallEvaluateAnswer \/ CallGenerateQuestions

SpecCalls == InitCalls /\ [][NextCalls]_vars

(***************************************************************************)
(* submit_invite.  The public endpoint reads the invite of a token,        *)
(* creates a contact for the inviting user and then marks the invite       *)
(* completed: three requests to the database with an await at each, so     *)
(* the steps of simultaneous submissions interleave.                       *)
(***************************************************************************)
MaxRequests == 2

Requests == 1..MaxRequests

\* "tok-1" is the token of the invite that was sent, "tok-0" is no invite's.
Tokens == {"tok-1", "tok-0"}

\* A row of contact_invites; expired stands for expires_at < now.
ContactInvite(status, expired) ==
    [id |-> "inv-1", user_id |-> CurrentUserId, token |-> "tok-1",
     recipient_email |-> "jane@example.com", status |-> status,
     expired |-> expired, contact_id |-> None]

\* The body of a submission.
InviteSubmitRequest ==
    [name |-> "Jane Smith", relationship |-> "friend", photo_url |-> "photo.jpg"]

InviteSubmitResponse(contact_name) ==
    [kind |-> "response", success |-> TRUE,
     message |-> "Thank you! Your information has been added.",
     contact_name |-> contact_name]

InitInvite ==
    /\ contact_invites \in {<<ContactInvite(status, expired)>> :
                               status \in {"pending", "completed"}, expired \in BOOLEAN}
    /\ personal_contacts = <<>>
    /\ submits \in [Requests -> {[pc |-> "get", token |-> token, invite |-> None,
                                  contact_id |-> None, response |-> [kind |-> "pending"]] :
                                     token \in Tokens}]
    /\ pc = "requests"
    /\ user_answer = None /\ expected = "" /\ acceptable = <<>>
    /\ settings = None /\ result = [kind |-> "pending"]
    /\ profile = DefaultProfile
    /\ contacts = <<>>
    /\ contact_ids = None
    /\ sessions = <<>>
    /\ questions = [kind |-> "pending"]
    /\ response = [kind |-> "pending"]
    /\ shuffled = <<>>
    /\ tables = ModuleTables

\* The rows of contact_invites with the token.
InvitesOf(token) ==
    LET HasToken(row) == row.token = token
    IN  SelectSeq(contact_invites, HasToken)

\* GET contact_invites, then the checks on the row that was read.
submit_invite_get(r) ==
    /\ submits[r].pc = "get"
    /\ LET invites == InvitesOf(submits[r].token)
       IN  IF invites = <<>>
           THEN submits' = [submits EXCEPT ![r].pc = "done",
                               ![r].response = HTTPException(404, "Invite not found")]
           ELSE IF invites[1].expired
           THEN submits' = [submits EXCEPT ![r].pc = "done", ![r].invite = invites[1],
                               ![r].response = HTTPException(400, "This invite has expired")]
           ELSE IF invites[1].status = "completed"
           THEN submits' = [submits EXCEPT ![r].pc = "done", ![r].invite = invites[1],
                               ![r].response = HTTPException(400, "This invite has already been used")]
           ELSE submits' = [submits EXCEPT ![r].pc = "post", ![r].invite = invites[1]]
    /\ UNCHANGED <<contact_invites, personal_contacts, pc>>
    /\ UNCHANGED evaluator_vars
    /\ UNCHANGED session_vars

\* POST personal_contacts; raise_for_status turns a refusal into a 500.
submit_invite_post(r) ==
    /\ submits[r].pc = "post"
    /\ \E ok \in BOOLEAN :
           IF ok
           THEN LET contact_id == Len(personal_contacts) + 1
                IN  /\ personal_contacts' =
                           Append(personal_contacts,
                                  [id |-> contact_id, user_id |-> submits[r].invite.user_id]
                                      @@ InviteSubmitRequest)
                    /\ submits' = [submits EXCEPT ![r].pc = "patch",
                                                  ![r].contact_id = contact_id]
           ELSE /\ personal_contacts' = personal_contacts
                /\ submits' = [submits EXCEPT ![r].pc = "done",
                                   ![r].response = HTTPException(500, "HTTPStatusError")]
    /\ UNCHANGED <<contact_invites, pc>>
    /\ UNCHANGED evaluator_vars
    /\ UNCHANGED session_vars

\* PATCH contact_invites of the invite's id: status, completed_at, contact_id.
submit_invite_patch(r) ==
    /\ submits[r].pc = "patch"
    /\ contact_invites' =
           [i \in DOMAIN contact_invites |->
               IF contact_invites[i].id = submits[r].invite.id
               THEN [contact_invites[i] EXCEPT !.status = "completed",
                                               !.contact_id = submits[r].contact_id]
               ELSE contact_invites[i]]
    /\ submits' = [submits EXCEPT ![r].pc = "return"]
    /\ UNCHANGED <<personal_contacts, pc>>
    /\ UNCHANGED evaluator_vars
    /\ UNCHANGED session_vars

\* The inviter's name is read, the thank-you email sent, the response returned.
submit_invite_return(r) ==
    /\ submits[r].pc = "return"
    /\ submits' = [submits EXCEPT ![r].pc = "done",
                       ![r].response = InviteSubmitResponse(InviteSubmitRequest.name)]
    /\ UNCHANGED <<contact_invites, personal_contacts, pc>>
    /\ UNCHANGED evaluator_vars
    /\ UNCHANGED session_vars

NextInvite ==
    \E r \in Requests :
        \/ submit_invite_get(r)
        \/ submit_invite_post(r)
        \/ submit_invite_patch(r)
        \/ submit_invite_return(r)

SpecInvite == InitInvite /\ [][NextInvite]_vars

(***************************************************************************)
(* Properties of evaluate_answer.  They read the call's arguments and its  *)
(* result; the settings are read here from the dict itself.                *)
(***************************************************************************)
Done == pc = "done"

IsStr == user_answer.type = "str"

NonEmptyAnswer == IsStr /\ user_answer.value # ""

\* The flag is on: not stored, or stored as True.
Enabled(flag) ==
    \/ settings.type = "NoneType"
    \/ flag \notin DOMAIN settings.value
    \/ settings.value[flag]

AllFlagsFalse == settings = PyDict([f \in FLAGS |-> FALSE])

DefaultSettings == \A f \in FLAGS : Enabled(f)

Returned(is_correct, is_partial, score) ==
    result = Return(is_correct, is_partial, score)

\* U and E are equal once lowercased and trimmed.
SameNormalForm == strip(lower(user_answer.value)) = strip(lower(expected))

\* U, lowercased and trimmed, is a non-empty entry of acceptable_answers,
\* compared case-insensitively.
AlternativeListed ==
    \E i \in DOMAIN acceptable :
        acceptable[i] # "" /\ strip(lower(user_answer.value)) = lower(acceptable[i])

\* U is the first whitespace-delimited token of an expected answer that
\* contains a space.
FirstNameGiven ==
    /\ Contains(" ", expected)
    /\ split(expected) # <<>>
    /\ strip(lower(user_answer.value)) = lower(split(expected)[1])

\* One of the two lowercased, trimmed answers is a substring of the other.
OneContainsTheOther ==
    \/ Contains(strip(lower(expected)), strip(lower(user_answer.value)))
    \/ Contains(strip(lower(user_answer.value)), strip(lower(expected)))

SingleWord(s) == s # "" /\ \A i \in 1..Len(s) : Char(s, i) \notin WHITESPACE

ShareGroup(a, b) == \E i \in DOMAIN SYNONYM_GROUPS : {a, b} \subseteq SYNONYM_GROUPS[i]

\* C1 as stated: whenever U, lowercased and trimmed, equals the non-empty E,
\* lowercased and trimmed, the call returns (true, false, 1.0).
C1_ExactMatchWinsForEveryAnswer ==
    (Done /\ IsStr /\ expected # "" /\ SameNormalForm)
        => Returned(TRUE, FALSE, Float_1_0)

\* C1 amended: for every non-empty U and non-empty E that are equal once
\* lowercased and trimmed, whatever the alternatives and the six flags are,
\* the call returns (true, false, 1.0).
C1_ExactMatchWins ==
    (Done /\ NonEmptyAnswer /\ expected # "" /\ SameNormalForm)
        => Returned(TRUE, FALSE, Float_1_0)

\* U differs from E in case and outer whitespace only, every flag is off and
\* the call has returned the exact-match result.
C1_Witness ==
    /\ Done /\ NonEmptyAnswer /\ expected # ""
    /\ user_answer.value # expected /\ lower(user_answer.value) # expected
    /\ strip(user_answer.value) # user_answer.value
    /\ SameNormalForm /\ AllFlagsFalse
    /\ Returned(TRUE, FALSE, Float_1_0)

\* C2: a user answer that is None or "" is graded (false, false, 0.0),
\* whatever the expected answer, the alternatives and the settings are.
C2_EmptyAnswerNoCredit ==
    (Done /\ (user_answer = None \/ user_answer = PyStr("")))
        => Returned(FALSE, FALSE, Float_0_0)

\* The empty answer against a whitespace-only expected answer, whose trimmed
\* form it equals, with an alternatives list and every flag on.
C2_Witness ==
    /\ Done /\ user_answer = PyStr("") /\ expected = " "
    /\ acceptable # <<>> /\ DefaultSettings
    /\ Returned(FALSE, FALSE, Float_0_0)

\* C3: no returned result has is_partial true together with is_correct false.
C3_PartialImpliesCorrect ==
    (Done /\ result.kind = "return")
        => ~(result.is_partial /\ ~result.is_correct)

\* A common word below the 0.5 overlap threshold, with no other tier on:
\* the call has returned not correct and not partial.
C3_Witness ==
    /\ Done /\ NonEmptyAnswer /\ result.kind = "return"
    /\ ToSet(split(lower(user_answer.value))) \cap ToSet(split(lower(expected))) # {}
    /\ Enabled("match_word_overlap")
    /\ ~result.is_correct /\ ~result.is_partial

\* C4: every returned correctness_score lies in [0.0, 1.0], and so do the
\* overlap ratios words_are_similar computes on the raw and on the
\* significant word sets of the two answers.
C4_ScoreInUnitInterval ==
    /\ (Done /\ result.kind = "return")
           => /\ Geq(result.correctness_score, Float_0_0)
              /\ Geq(Float_1_0, result.correctness_score)
    /\ (Done /\ NonEmptyAnswer /\ acceptable = <<>> /\ settings = None)
           => /\ Geq(Float_1_0,
                     words_are_similar(ToSet(split(lower_strip(user_answer.value))),
                                       ToSet(split(lower_strip(expected))))[2])
              /\ Geq(Float_1_0,
                     words_are_similar(extract_significant_words(user_answer.value),
                                       extract_significant_words(expected))[2])

\* A word-overlap result: the call has returned a computed ratio strictly
\* between 0 and 1 that is none of the fixed tier scores.
C4_Witness ==
    /\ Done /\ NonEmptyAnswer /\ result.kind = "return"
    /\ result.is_correct /\ result.is_partial
    /\ result.correctness_score \notin
           {Float_0_0, Float_0_7, Float_0_8, Float_0_9, Float_1_0}

\* C5: with all six flags false, an answer that is not an exact match is
\* graded (false, false, 0.0).
C5_ExactMatchOnly ==
    (Done /\ AllFlagsFalse /\ (~IsStr \/ ~SameNormalForm))
        => Returned(FALSE, FALSE, Float_0_0)

\* All flags false, and the answer is a listed alternative that also
\* contains the expected answer: graded (false, false, 0.0).
C5_Witness ==
    /\ Done /\ AllFlagsFalse /\ NonEmptyAnswer
    /\ ~SameNormalForm /\ AlternativeListed /\ OneContainsTheOther
    /\ expected # "" /\ strip(expected) # ""
    /\ Returned(FALSE, FALSE, Float_0_0)

\* C6: with match_acceptable_alternatives enabled, an answer that is not an
\* exact match but equals a non-empty alternative case-insensitively gets
\* the full-credit result (true, false, 1.0).
C6_AlternativeFullCredit ==
    (/\ Done /\ NonEmptyAnswer /\ Enabled("match_acceptable_alternatives")
     /\ ~SameNormalForm /\ AlternativeListed)
        => Returned(TRUE, FALSE, Float_1_0)

\* "my son" for "son" with the alternative "My Son" after an empty entry,
\* substring matching on: full credit, not the substring tier's 0.8.
C6_Witness ==
    /\ Done /\ NonEmptyAnswer /\ DefaultSettings
    /\ ~SameNormalForm /\ AlternativeListed /\ OneContainsTheOther
    /\ strip(expected) # ""
    /\ Len(acceptable) = 2 /\ acceptable[1] = ""
    /\ user_answer.value # acceptable[2]
    /\ Returned(TRUE, FALSE, Float_1_0)

\* C7: with match_partial_substring enabled, when no exact, alternative or
\* first-name match applies and one lowercased answer is a substring of the
\* other, the call returns (true, true, 0.8).
C7_SubstringTier ==
    (/\ Done /\ NonEmptyAnswer /\ Enabled("match_partial_substring")
     /\ ~SameNormalForm
     /\ ~(Enabled("match_acceptable_alternatives") /\ AlternativeListed)
     /\ ~(Enabled("match_first_name_only") /\ FirstNameGiven)
     /\ OneContainsTheOther)
        => Returned(TRUE, TRUE, Float_0_8)

\* C8: under default settings, a single-word answer and a single-word
\* expected answer that are distinct members of one synonym group and match
\* no earlier tier are graded (true, true, 0.7).
C8_SingleSynonymScores07 ==
    (/\ Done /\ NonEmptyAnswer /\ DefaultSettings
     /\ SingleWord(user_answer.value) /\ SingleWord(expected)
     /\ user_answer.value # expected
     /\ ShareGroup(user_answer.value, expected)
     /\ ~SameNormalForm /\ ~AlternativeListed /\ ~OneContainsTheOther)
        => Returned(TRUE, TRUE, Float_0_7)

\* C9: for single words A and B of one synonym group, no alternatives and
\* any settings, evaluate_answer(A, B) and evaluate_answer(B, A) return the
\* same triple.
C9_SynonymSymmetry ==
    (/\ Done /\ NonEmptyAnswer /\ acceptable = <<>>
     /\ SingleWord(user_answer.value) /\ SingleWord(expected)
     /\ ShareGroup(user_answer.value, expected))
        => result = evaluate_answer(PyStr(expected), user_answer.value, <<>>, settings)

\* "work" for "workplace": two words of one group, one a substring of the
\* other, graded by the substring tier.
C9_Witness ==
    /\ Done /\ NonEmptyAnswer /\ acceptable = <<>>
    /\ SingleWord(user_answer.value) /\ SingleWord(expected)
    /\ user_answer.value # expected
    /\ ShareGroup(user_answer.value, expected)
    /\ Contains(user_answer.value, expected)
    /\ Returned(TRUE, TRUE, Float_0_8)

\* C10: two words are synonyms iff one synonym group holds both, so sharing
\* a group with a third word does not make two words synonyms; "daughter"
\* for "son" with no alternatives and default settings is graded
\* (false, false, 0.0).
C10_SynonymyPerGroup ==
    /\ (Done /\ NonEmptyAnswer /\ acceptable = <<>> /\ settings = None)
           => \A uw \in ToSet(split(lower_strip(user_answer.value))) :
                  \A ew \in ToSet(split(lower_strip(expected))) :
                      find_synonym_match(uw, ew) <=> ShareGroup(uw, ew)
    /\ (/\ Done /\ user_answer = PyStr("daughter") /\ expected = "son"
        /\ acceptable = <<>> /\ DefaultSettings)
           => Returned(FALSE, FALSE, Float_0_0)

\* "daughter" for "son": each shares a group with "child" and with "kid",
\* no group holds both, and the call has returned no match.
C10_Witness ==
    /\ Done /\ user_answer = PyStr("daughter") /\ expected = "son"
    /\ acceptable = <<>> /\ DefaultSettings
    /\ ShareGroup("daughter", "child") /\ ShareGroup("child", "son")
    /\ ShareGroup("daughter", "kid") /\ ShareGroup("kid", "son")
    /\ ~ShareGroup("daughter", "son")
    /\ Returned(FALSE, FALSE, Float_0_0)

\* C11: evaluate_answer never raises; for every user answer, every non-empty
\* expected answer, every alternatives list and every settings bundle the
\* call completes and returns a result triple.
C11_NeverRaises ==
    (Done /\ expected # "") => result.kind = "return"

\* C12: an empty expected answer is never answered correctly; with a
\* non-empty user answer the call raises or returns (false, false, 0.0),
\* under any settings.
C12_EmptyExpectedNeverCorrect ==
    (Done /\ expected = "" /\ NonEmptyAnswer)
        => (result.kind = "raise" \/ Returned(FALSE, FALSE, Float_0_0))

\* C18: with match_first_name_only enabled, when the expected answer contains
\* a space, no exact or alternative match applies and U (lowercased, trimmed)
\* is the lowercased first token of the expected answer, the call returns
\* (true, true, 0.9), whatever the alternatives and substring flags are; when
\* the expected answer contains no space the first-name result never occurs.
C18_FirstNameTier ==
    /\ (/\ Done /\ NonEmptyAnswer /\ Enabled("match_first_name_only")
        /\ ~SameNormalForm
        /\ ~(Enabled("match_acceptable_alternatives") /\ AlternativeListed)
        /\ FirstNameGiven)
           => Returned(TRUE, TRUE, Float_0_9)
    /\ (Done /\ ~Contains(" ", expected))
           => ~Returned(TRUE, TRUE, Float_0_9)

\* "john" for "John Smith" with the substring tier on: the substring tier
\* would accept the answer too, and the first-name tier has graded it.
C18_Witness ==
    /\ Done /\ NonEmptyAnswer
    /\ Enabled("match_first_name_only") /\ Enabled("match_partial_substring")
    /\ ~SameNormalForm /\ FirstNameGiven /\ OneContainsTheOther
    /\ Returned(TRUE, TRUE, Float_0_9)

\* The lowercased, trimmed words of a string, and those left after the stop
\* words are removed.
WordsOf(s) == ToSet(split(strip(lower(s))))

SignificantOf(s) == WordsOf(s) \ STOP_WORDS

\* At least half of the larger raw word set is shared.
HalfTheWordsShared ==
    LET user_words == WordsOf(user_answer.value)
        expected_words == WordsOf(expected)
    IN  /\ user_words \cap expected_words # {}
        /\ 2 * Cardinality(user_words \cap expected_words)
               >= IntMax(Cardinality(user_words), Cardinality(expected_words))

\* None of the tiers before the significant-word tier is enabled and matches.
NoMatchBeforeSignificantWords ==
    /\ ~SameNormalForm
    /\ ~(Enabled("match_acceptable_alternatives") /\ AlternativeListed)
    /\ ~(Enabled("match_first_name_only") /\ FirstNameGiven)
    /\ ~(Enabled("match_partial_substring") /\ OneContainsTheOther)
    /\ ~(Enabled("match_word_overlap") /\ HalfTheWordsShared)

\* Both filtered word sets are non-empty and they share a word.
SignificantWordShared ==
    /\ SignificantOf(user_answer.value) # {}
    /\ SignificantOf(expected) # {}
    /\ SignificantOf(user_answer.value) \cap SignificantOf(expected) # {}

SignificantRatio ==
    Div(Cardinality(SignificantOf(user_answer.value) \cap SignificantOf(expected)),
        IntMax(Cardinality(SignificantOf(user_answer.value)),
               Cardinality(SignificantOf(expected))))

\* C19: with match_stop_word_filtering enabled and no earlier tier matching,
\* filtered word sets that are both non-empty and share a word give
\* (true, true, max(0.7, |common| / max(|sigU|, |sigE|))), however small the
\* ratio; otherwise the tier does not match, so with the synonym tier off the
\* answer is not accepted.
C19_SignificantWordTier ==
    /\ (/\ Done /\ NonEmptyAnswer /\ Enabled("match_stop_word_filtering")
        /\ NoMatchBeforeSignificantWords /\ SignificantWordShared)
           => Returned(TRUE, TRUE, Max(Float_0_7, SignificantRatio))
    /\ (/\ Done /\ NonEmptyAnswer /\ Enabled("match_stop_word_filtering")
        /\ NoMatchBeforeSignificantWords /\ ~SignificantWordShared
        /\ ~Enabled("match_synonyms"))
           => ~(result.kind = "return" /\ result.is_correct)

\* One significant word in four is shared, a ratio below 0.3, and the answer
\* is accepted with 0.7.
C19_Witness ==
    /\ Done /\ NonEmptyAnswer /\ Enabled("match_stop_word_filtering")
    /\ NoMatchBeforeSignificantWords /\ SignificantWordShared
    /\ ~Geq(SignificantRatio, Float_0_3)
    /\ Returned(TRUE, TRUE, Float_0_7)

\* The user words that have an equal or synonymous expected word, over the
\* size of the larger set.
SimilarityOf(user_words, expected_words) ==
    Div(Cardinality({uw \in user_words :
            \E ew \in expected_words : uw = ew \/ ShareGroup(uw, ew)}),
        IntMax(Cardinality(user_words), Cardinality(expected_words)))

\* The result the three synonym checks give, taken in their order.
FirstSynonymCheck ==
    LET user_words == WordsOf(user_answer.value)
        expected_words == WordsOf(expected)
        user_significant == SignificantOf(user_answer.value)
        expected_significant == SignificantOf(expected)
    IN  IF /\ user_words # {} /\ expected_words # {}
           /\ Geq(SimilarityOf(user_words, expected_words), Float_0_5)
        THEN Return(TRUE, TRUE, SimilarityOf(user_words, expected_words))
        ELSE IF /\ Enabled("match_stop_word_filtering")
                /\ user_significant # {} /\ expected_significant # {}
                /\ Geq(SimilarityOf(user_significant, expected_significant), Float_0_5)
        THEN Return(TRUE, TRUE, SimilarityOf(user_significant, expected_significant))
        ELSE IF \E uw \in user_words : \E ew \in expected_words : ShareGroup(uw, ew)
        THEN Return(TRUE, TRUE, Float_0_7)
        ELSE Return(FALSE, FALSE, Float_0_0)

NoMatchBeforeSynonyms ==
    /\ NoMatchBeforeSignificantWords
    /\ ~(Enabled("match_stop_word_filtering") /\ SignificantWordShared)

\* C20: with match_synonyms enabled and no earlier tier matching, the result
\* is that of the first successful check among (a) similarity of the raw
\* word sets >= 0.5, (b) with match_stop_word_filtering, similarity of the
\* filtered sets >= 0.5, (c) any synonymous pair of raw words, 0.7; if none
\* succeeds the result is (false, false, 0.0).
C20_SynonymSubOrder ==
    (/\ Done /\ NonEmptyAnswer /\ Enabled("match_synonyms")
     /\ NoMatchBeforeSynonyms)
        => result = FirstSynonymCheck

\* The answer as evaluate_answer grades it under the stored profile's flags.
GradedUnderProfile ==
    evaluate_answer(user_answer, expected, acceptable, PyDict(profile))

\* C13: the evaluate-answer endpoint grades with the submitting user's stored
\* settings; an answer it grades correct is correct under the stored flags,
\* so no strategy the profile has switched off accepts an answer.
C13_GradingUsesStoredSettings ==
    (Done /\ result.kind = "return" /\ result.is_correct)
        => /\ GradedUnderProfile.kind = "return"
           /\ GradedUnderProfile.is_correct

(***************************************************************************)
(* Properties of the prompt generator and of question sessions.            *)
(***************************************************************************)
\* The generator has been called on the stored rows.
Generated == pc = "done" /\ questions.kind # "pending"

\* POST /question-sessions has been answered.
Responded == pc = "done" /\ response.kind # "pending"

HasText(x) == x.type = "str" /\ x.value # ""

HasHint(c) == HasText(c.interests) \/ HasText(c.description) \/ HasText(c.personality)

\* The positions of the user's active rows that the request selects.
MatchingActive ==
    {i \in DOMAIN contacts :
        /\ contacts[i].user_id = CurrentUserId
        /\ contacts[i].is_active
        /\ (contact_ids.type = "list" /\ contact_ids.value # <<>>)
               => \E j \in DOMAIN contact_ids.value : contact_ids.value[j] = contacts[i].id}

\* C14: the generator returns an empty list for 0 or 1 candidates, and
\* create_question_session with fewer than 2 matching active contacts answers
\* 400 "At least 2 contacts required" and inserts no session row.
C14_AtLeastTwoCandidates ==
    /\ (Generated /\ Len(contacts) < 2) => questions = ReturnList(<<>>)
    /\ (Responded /\ Cardinality(MatchingActive) < 2)
           => /\ response = HTTPException(400, "At least 2 contacts required")
              /\ sessions = <<>>

\* Three rows are stored, two of them active rows of the user, the request
\* names one of these, and the answer is the 400 with nothing stored.
C14_Witness ==
    /\ Responded /\ Len(contacts) = 3
    /\ Cardinality({i \in DOMAIN contacts :
           contacts[i].user_id = CurrentUserId /\ contacts[i].is_active}) = 2
    /\ Cardinality(MatchingActive) = 1
    /\ response = HTTPException(400, "At least 2 contacts required")
    /\ sessions = <<>>

\* The kinds of a list of prompts, in order.
Kinds(prompts) == [i \in DOMAIN prompts |-> prompts[i].question_type]

\* The positions of the stored candidates with a non-empty interests field.
WithInterests == {i \in DOMAIN contacts : HasText(contacts[i].interests)}

\* C15: for exactly 2 candidates of which exactly one has a non-empty
\* interests field, the generator returns, for every shuffle order, 5
\* prompts, one of each kind, and the NAME_FROM_DESCRIPTION prompt's expected
\* answer is the name of the candidate with the interests.
C15_TwoCandidatesOneWithInterests ==
    (Generated /\ Len(contacts) = 2 /\ Cardinality(WithInterests) = 1)
        => /\ questions.kind = "return"
           /\ Len(questions.questions) = 5
           /\ ToSet(Kinds(questions.questions))
                  = {RELATIONSHIP, ASSOCIATION, INTERESTS, PERSONALITY, NAME_FROM_DESC}
           /\ \A i \in DOMAIN questions.questions :
                  questions.questions[i].question_type = NAME_FROM_DESC
                      => \A c \in WithInterests :
                             questions.questions[i].expected_answer = contacts[c].name

\* C16: for at least 2 candidates and every shuffle order the generator
\* returns the prompts in the order RELATIONSHIP, ASSOCIATION, INTERESTS,
\* PERSONALITY, NAME_FROM_DESCRIPTION, the last one present iff a candidate
\* has a non-empty interests, description or personality: 5 prompts in that
\* case, 4 otherwise.
C16_FixedKindOrder ==
    (Generated /\ Len(contacts) >= 2)
        => /\ questions.kind = "return"
           /\ Kinds(questions.questions) =
                  IF \E i \in DOMAIN contacts : HasHint(contacts[i])
                  THEN <<RELATIONSHIP, ASSOCIATION, INTERESTS, PERSONALITY, NAME_FROM_DESC>>
                  ELSE <<RELATIONSHIP, ASSOCIATION, INTERESTS, PERSONALITY>>

\* C17: when fewer prompts are generated than the session's total_questions,
\* create_question_session ends in an error and leaves no session row; every
\* stored session's total_questions is the number of prompts handed to the
\* client.
C17_ShortPromptListIsAnError ==
    Responded
        => \A i \in DOMAIN sessions :
               /\ response.kind = "response"
               /\ Len(response.questions) = sessions[i].total_questions

\* The prompts the generator call has returned; none when it has raised.
Prompts == IF questions.kind = "return" THEN questions.questions ELSE <<>>

\* The prompt is about the candidate c.
About(prompt, c) == prompt.contact_id = c.id /\ prompt.contact_name = c.name

\* C21: for at least 2 candidates and every shuffle order, the RELATIONSHIP
\* and INTERESTS prompts are about the first candidate of the shuffled order,
\* the ASSOCIATION and PERSONALITY prompts about the second, the two are
\* different list positions, and every prompt's contact_id is the id of an
\* input candidate.
C21_CandidateAssignment ==
    (Generated /\ Len(contacts) >= 2 /\ Prompts # <<>>)
        => /\ \A i \in DOMAIN Prompts :
                  /\ Prompts[i].question_type \in {RELATIONSHIP, INTERESTS}
                         => About(Prompts[i], shuffled[1])
                  /\ Prompts[i].question_type \in {ASSOCIATION, PERSONALITY}
                         => About(Prompts[i], shuffled[2])
                  /\ \E k \in DOMAIN contacts : Prompts[i].contact_id = contacts[k].id
           /\ \E j, k \in DOMAIN contacts :
                  j # k /\ shuffled[1] = contacts[j] /\ shuffled[2] = contacts[k]

\* Three candidates, the third of the list shuffled to the front: the
\* relationship prompt is about it, the association prompt about another.
C21_Witness ==
    /\ Generated /\ Len(contacts) = 3 /\ Len(Prompts) = 5
    /\ shuffled[1] = contacts[3]
    /\ Prompts[1].question_type = RELATIONSHIP /\ Prompts[1].contact_id = contacts[3].id
    /\ Prompts[3].question_type = INTERESTS /\ Prompts[3].contact_id = contacts[3].id
    /\ Prompts[2].question_type = ASSOCIATION /\ Prompts[2].contact_id # contacts[3].id
    /\ Prompts[4].contact_id = Prompts[2].contact_id

\* The first candidate, in shuffled order, with a non-empty interests,
\* description or personality.
FirstWithHint ==
    shuffled[CHOOSE i \in DOMAIN shuffled :
                 /\ HasHint(shuffled[i])
                 /\ \A j \in 1..(i - 1) : ~HasHint(shuffled[j])]

\* The first non-empty of interests, description, personality.
HintText(c) ==
    IF HasText(c.interests) THEN c.interests.value
    ELSE IF HasText(c.description) THEN c.description.value
    ELSE c.personality.value

\* The prompt is built from the candidate c: it is about c, asks with c's
\* hint, expects c's name and accepts the lowercased name and nickname.
BuiltFrom(prompt, c) ==
    /\ About(prompt, c)
    /\ Contains(SubSeq(HintText(c), 2, Len(HintText(c))), prompt.question_text)
    /\ prompt.expected_answer = c.name
    /\ lower(c.name) \in ToSet(prompt.acceptable_answers)
    /\ HasText(c.nickname) => lower(c.nickname.value) \in ToSet(prompt.acceptable_answers)

\* C22 as stated: the NAME_FROM_DESCRIPTION prompt is built from the first
\* candidate in shuffled order with a non-empty interests, description or
\* personality, and its acceptable answers contain the lowercased first
\* whitespace-delimited token of the name.
C22_NamePromptAcceptsFirstToken ==
    \A i \in DOMAIN Prompts :
        (Generated /\ Prompts[i].question_type = NAME_FROM_DESC)
            => /\ BuiltFrom(Prompts[i], FirstWithHint)
               /\ split(FirstWithHint.name) # <<>>
                      => lower(split(FirstWithHint.name)[1])
                             \in ToSet(Prompts[i].acceptable_answers)

\* C22, amended: the same, with the first token accepted when the name
\* contains a space; for a name without a space the second acceptable answer
\* is the lowercased name again.
C22_NamePrompt ==
    \A i \in DOMAIN Prompts :
        (Generated /\ Prompts[i].question_type = NAME_FROM_DESC)
            => /\ BuiltFrom(Prompts[i], FirstWithHint)
               /\ Len(Prompts[i].acceptable_answers) = 3
               /\ Prompts[i].acceptable_answers[2] =
                      IF Contains(" ", FirstWithHint.name)
                      THEN lower(split(FirstWithHint.name)[1])
                      ELSE lower(FirstWithHint.name)

\* Three candidates with a hint each; the prompt is about the first of the
\* shuffled order, which is not the first of the list and has a full name
\* and a nickname: "bob stone", "bob" and "bobby" are accepted.
C22_Witness ==
    /\ Generated /\ Len(contacts) = 3 /\ Len(Prompts) = 5
    /\ \A i \in DOMAIN contacts : HasHint(contacts[i])
    /\ shuffled[1] # contacts[1]
    /\ Prompts[5].question_type = NAME_FROM_DESC
    /\ About(Prompts[5], shuffled[1])
    /\ Prompts[5].expected_answer = "Bob Stone"
    /\ Prompts[5].acceptable_answers = <<"bob stone", "bob", "bobby">>
    /\ Contains("tall", Prompts[5].question_text)

\* C23: no prompt is generated with an empty expected answer, for every list
\* of at least 2 stored candidates.
C23_NoEmptyExpectedAnswer ==
    \A i \in DOMAIN Prompts :
        (Generated /\ Len(contacts) >= 2) => Prompts[i].expected_answer # ""

\* The caller's list is in the order it was stored in.
InStoredOrder == \A i \in DOMAIN contacts : contacts[i].id = i

StartedAfterCompleted ==
    {r \in DOMAIN submits : /\ submits[r].invite # None
                            /\ submits[r].invite.status = "completed"}

\* C25: an invite is used at most once: after any sequence of submit_invite
\* requests for its token, interleaved ones included, at most one contact has
\* been created for the invite, and every submission that starts after the
\* invite is marked completed is rejected with 400 and creates no contact.
C25_InviteUsedAtMostOnce ==
    /\ Len(personal_contacts) <= 1
    /\ \A r \in StartedAfterCompleted :
           /\ submits[r].pc = "done"
           /\ submits[r].response.kind = "HTTPException"
           /\ submits[r].response.status_code = 400
           /\ submits[r].contact_id = None

\* Every word of the larger word set has its match in the other answer, under
\* an enabled word-set tier: equal raw sets, equal significant sets, or a
\* synonym similarity of 1 on either.
EveryWordMatched ==
    LET user_words == WordsOf(user_answer.value)
        expected_words == WordsOf(expected)
        user_significant == SignificantOf(user_answer.value)
        expected_significant == SignificantOf(expected)
    IN  \/ Enabled("match_word_overlap")
               /\ user_words # {} /\ user_words = expected_words
        \/ Enabled("match_stop_word_filtering")
               /\ user_significant # {} /\ user_significant = expected_significant
        \/ Enabled("match_synonyms")
               /\ user_words # {} /\ expected_words # {}
               /\ SimilarityOf(user_words, expected_words) = Float_1_0
        \/ Enabled("match_synonyms") /\ Enabled("match_stop_word_filtering")
               /\ user_significant # {} /\ expected_significant # {}
               /\ SimilarityOf(user_significant, expected_significant) = Float_1_0

\* The exact-match or the acceptable-alternatives tier accepts the answer.
FullMatch ==
    \/ SameNormalForm
    \/ Enabled("match_acceptable_alternatives") /\ AlternativeListed

\* C26 as stated: whenever evaluate_answer returns is_partial=true the
\* correctness_score is strictly less than 1.0, a score of 1.0 being returned
\* only by the exact-match and acceptable-alternatives tiers.
C26_PartialBelowFullScore ==
    (Done /\ result.kind = "return" /\ result.is_partial)
        => ~Geq(result.correctness_score, Float_1_0)

\* C26: a correct result that is not partial has the score 1.0 and comes from
\* the exact-match or the acceptable-alternatives tier; a partial result has
\* a score from 0.5 to 1.0, and the score 1.0 only when no full, first-name
\* or substring match applies and a word-set tier (word overlap, significant
\* words, synonym similarity) matched every word of the larger set.
C26_FullScore ==
    (Done /\ result.kind = "return" /\ result.is_correct)
        => /\ Geq(result.correctness_score, Float_0_5)
           /\ Geq(Float_1_0, result.correctness_score)
           /\ ~result.is_partial
                  => result.correctness_score = Float_1_0 /\ FullMatch
           /\ (result.is_partial /\ result.correctness_score = Float_1_0)
                  => /\ ~FullMatch
                     /\ ~(Enabled("match_first_name_only") /\ FirstNameGiven)
                     /\ ~(Enabled("match_partial_substring") /\ OneContainsTheOther)
                     /\ EveryWordMatched

\* The words of the expected answer in another order: word overlap accepts
\* the answer as partial with the score 1.0.
C26_Witness ==
    /\ Done /\ NonEmptyAnswer /\ Returned(TRUE, TRUE, Float_1_0)
    /\ Enabled("match_word_overlap")
    /\ WordsOf(user_answer.value) = WordsOf(expected)
    /\ ~SameNormalForm /\ ~OneContainsTheOther

\* The settings that switch on every flag that is on in the call's settings.
MoreLenientSettings ==
    {PyDict(d) : d \in {e \in [FLAGS -> BOOLEAN] : \A f \in FLAGS : Enabled(f) => e[f]}}

\* C27: enabling more strategies never makes grading stricter: if the call
\* returns is_correct=true under its settings S, then for every settings S'
\* in which every flag true in S is also true, evaluate_answer on the same
\* answers returns is_correct=true as well.
C27_MoreStrategiesNeverStricter ==
    (Done /\ result.kind = "return" /\ result.is_correct)
        => \A more \in MoreLenientSettings :
               LET lenient == evaluate_answer(user_answer, expected, acceptable, more)
               IN  lenient.kind = "return" /\ lenient.is_correct

\* The answers a graded answer is compared with: one or more for each tier.
ComparedAnswers ==
    {"Son ", "My Son", "john", "john smith work son", "smith john", "my son",
     "my son john", "the kid", "friendly"}

\* The synonym tier accepts the answer u: one of its three checks succeeds.
SynonymsAccept(u) ==
    LET user_words == WordsOf(u)
        expected_words == WordsOf(expected)
        user_significant == SignificantOf(u)
        expected_significant == SignificantOf(expected)
    IN  \/ /\ user_words # {} /\ expected_words # {}
           /\ Geq(SimilarityOf(user_words, expected_words), Float_0_5)
        \/ /\ Enabled("match_stop_word_filtering")
           /\ user_significant # {} /\ expected_significant # {}
           /\ Geq(SimilarityOf(user_significant, expected_significant), Float_0_5)
        \/ \E uw \in user_words : \E ew \in expected_words : ShareGroup(uw, ew)

\* The position in the cascade of the fixed-score tier that accepts the
\* non-empty answer u for the call's expected answer, alternatives and
\* settings: 2 exact match, 3 alternatives, 4 first name, 5 substring; 9 when
\* none of the four accepts it.
FixedTierOf(u) ==
    LET user_lower == strip(lower(u))
        expected_lower == strip(lower(expected))
    IN  IF user_lower = expected_lower THEN 2
        ELSE IF /\ Enabled("match_acceptable_alternatives")
                /\ \E i \in DOMAIN acceptable :
                       acceptable[i] # "" /\ user_lower = lower(acceptable[i])
        THEN 3
        ELSE IF /\ Enabled("match_first_name_only")
                /\ Contains(" ", expected) /\ split(expected) # <<>>
                /\ user_lower = lower(split(expected)[1])
        THEN 4
        ELSE IF /\ Enabled("match_partial_substring")
                /\ \/ Contains(expected_lower, user_lower)
                   \/ Contains(user_lower, expected_lower)
        THEN 5
        ELSE 9

\* The position in the cascade of the tier that accepts the non-empty answer
\* u: a fixed-score tier, or 6 word overlap, 7 significant words,
\* 8 synonyms, 9 no match.
TierOf(u) ==
    LET user_words == WordsOf(u)
        expected_words == WordsOf(expected)
        user_significant == SignificantOf(u)
        expected_significant == SignificantOf(expected)
    IN  IF FixedTierOf(u) <= 5 THEN FixedTierOf(u)
        ELSE IF /\ Enabled("match_word_overlap")
                /\ user_words \cap expected_words # {}
                /\ 2 * Cardinality(user_words \cap expected_words)
                       >= IntMax(Cardinality(user_words), Cardinality(expected_words))
        THEN 6
        ELSE IF /\ Enabled("match_stop_word_filtering")
                /\ user_significant # {} /\ expected_significant # {}
                /\ user_significant \cap expected_significant # {}
        THEN 7
        ELSE IF Enabled("match_synonyms") /\ SynonymsAccept(u) THEN 8
        ELSE 9

\* The result of the answer u for the call's expected answer, alternatives
\* and settings.
ResultOf(u) == evaluate_answer(PyStr(u), expected, acceptable, settings)

\* C28 as stated: for a fixed expected answer and fixed settings, an answer
\* accepted by an earlier tier than another accepted answer scores at least
\* as much as that answer.
C28_ScoresFallAlongTheCascade ==
    (Done /\ NonEmptyAnswer /\ result.kind = "return")
        => \A u \in ComparedAnswers :
               (/\ TierOf(user_answer.value) < TierOf(u)
                /\ TierOf(u) <= 8
                /\ ResultOf(u).kind = "return")
                   => Geq(result.correctness_score, ResultOf(u).correctness_score)

\* C28: among the tiers with a fixed score (exact match 1.0, alternatives
\* 1.0, first name 0.9, substring 0.8), an answer accepted by an earlier tier
\* than another answer, for the same expected answer, alternatives and
\* settings, scores at least as much as that answer.
C28_FixedScoresFall ==
    (Done /\ NonEmptyAnswer /\ result.kind = "return")
        => LET first == FixedTierOf(user_answer.value)
           IN  first <= 4
                   => \A u \in ComparedAnswers :
                          LET second == FixedTierOf(u)
                              other == ResultOf(u)
                          IN  (first < second /\ second <= 5 /\ other.kind = "return")
                                  => /\ result.is_correct /\ other.is_correct
                                     /\ Geq(result.correctness_score,
                                            other.correctness_score)

\* The first name is accepted with 0.9 and a longer answer that contains the
\* full name with 0.8.
C28_Witness ==
    /\ Done /\ NonEmptyAnswer /\ FixedTierOf(user_answer.value) = 4
    /\ Returned(TRUE, TRUE, Float_0_9)
    /\ \E u \in ComparedAnswers :
           FixedTierOf(u) = 5 /\ ResultOf(u) = Return(TRUE, TRUE, Float_0_8)

\* C29: a user answer that consists only of whitespace characters (not empty,
\* empty once trimmed) is graded (false, false, 0.0) for every non-empty
\* expected answer and every settings combination.
C29_BlankAnswerNoCredit ==
    (/\ Done /\ NonEmptyAnswer /\ strip(user_answer.value) = ""
     /\ expected # "")
        => Returned(FALSE, FALSE, Float_0_0)

\* The two answers share a word, and no word of one is a synonym of a
\* different word of the other.
OnlyIdenticalWordsShared ==
    /\ WordsOf(user_answer.value) \cap WordsOf(expected) # {}
    /\ ~\E uw \in WordsOf(user_answer.value) : \E ew \in WordsOf(expected) :
            uw # ew /\ ShareGroup(uw, ew)

\* C30: with match_word_overlap and match_stop_word_filtering both false and
\* match_synonyms true, an answer that is no exact, alternative, first-name
\* or substring match and whose only relation to the expected answer is
\* sharing identical words is graded (false, false, 0.0).
C30_WordOverlapSwitchedOff ==
    (/\ Done /\ NonEmptyAnswer
     /\ ~Enabled("match_word_overlap") /\ ~Enabled("match_stop_word_filtering")
     /\ Enabled("match_synonyms")
     /\ ~SameNormalForm /\ ~AlternativeListed /\ ~FirstNameGiven
     /\ ~OneContainsTheOther
     /\ OnlyIdenticalWordsShared)
        => Returned(FALSE, FALSE, Float_0_0)

====
